---- MODULE Spec2Model ----
(***************************************************************************)
(* State-machine model of src-tauri/src/lib.rs (clipforge).                *)
(*                                                                         *)
(* Part 1, specification Spec: the capture supervisor.  Three process-wide *)
(* slots (RECORDING_PROCESS, CAMERA_RECORDING_PROCESS,                     *)
(* SCREEN_PREVIEW_PROCESS), each an Option<Child> behind its own mutex,    *)
(* and the commands that start, stop and query them, called from           *)
(* concurrent threads.  An engine process is spawned by a start command    *)
(* and exits when the environment lets it (ProcExit).  FairSpec adds that  *)
(* a wait for an exited engine returns; SessionSpec adds the one-shot      *)
(* commands, run while both recordings are Running.                        *)
(*                                                                         *)
(* Part 2, specification ConcatSpec: concatenate_clips, step by step, with *)
(* its scratch directory.                                                  *)
(*                                                                         *)
(* Part 3, specification ExportSpec: trim_video and                        *)
(* export_composite_video, from the request to the engine's arguments,     *)
(* with the arguments of the recording starts and of concatenate_clips.    *)
(*                                                                         *)
(* Part 4, specification DemuxSpec: the reader thread of the screen        *)
(* preview, which cuts the engine's output stream into JPEG frames.        *)
(***************************************************************************)
EXTENDS Integers, Sequences, FiniteSets, TLC

VARIABLES
    platform,   \* the build's target_os
    slot,       \* mutex name -> pid held in the Option<Child>, or None
    lock,       \* mutex name -> thread holding the MutexGuard, or NoThread
    procs,      \* the process table: pid -> engine process, or NoProc
    pc,         \* thread -> position inside the command it is running
    child,      \* thread -> pid of the Child the command holds in a local
    ret,        \* thread -> what its last command returned
    cc,         \* concatenate_clips: operation -> its control state
    fs,         \* concatenate_clips: the shared scratch area on disk
    rq,         \* trim_video / export_composite_video: the request in progress
    dm          \* the preview's reader thread: stream, buffer, emitted frames

supVars == <<platform, slot, lock, procs, pc, child, ret>>
ccVars == <<cc, fs>>
vars == <<platform, slot, lock, procs, pc, child, ret, cc, fs, rq, dm>>

----------------------------------------------------------------------------
(* Bounds *)

\* engine processes that may exist at the same time (size of the pid table)
MaxProcs == 2

\* threads invoking commands concurrently
Threads == {"t1", "t2"}

\* clips in one concatenate_clips request
MaxClips == 2

\* tracks in one export_composite_video request
MaxTracks == 3

\* the z_index values of the tracks are 0..MaxZ
MaxZ == 2

\* bytes the engine writes to the preview's stdout before the stream ends
MaxStream == 8

\* concatenate_clips invocations in flight in the one application process
Ops == {"op1", "op2"}

----------------------------------------------------------------------------
(* Capture kinds and their statics *)

Kinds == {"screen", "camera", "preview"}
RecordingKinds == {"screen", "camera"}
Mutexes == {"RECORDING_PROCESS", "CAMERA_RECORDING_PROCESS", "SCREEN_PREVIEW_PROCESS"}

\* the targets the supervisor is checked on: one with a capture backend
\* (the windows branch has the same control flow) and one without
Platforms == {"macos", "linux"}

None == 0
NoThread == "none"

\* (mutant) the camera commands lock the screen recording's static
ProcessSlot_CameraSharesScreen(k) ==
    CASE k = "screen" -> "RECORDING_PROCESS"
      [] k = "camera" -> "RECORDING_PROCESS"
      [] k = "preview" -> "SCREEN_PREVIEW_PROCESS"

\* the static each kind's commands lock
ProcessSlot(k) ==
    CASE k = "screen" -> "RECORDING_PROCESS"
      [] k = "camera" -> "CAMERA_RECORDING_PROCESS"
      [] k = "preview" -> "SCREEN_PREVIEW_PROCESS"

Running(k) == slot[ProcessSlot(k)] # None

----------------------------------------------------------------------------
(* Engine processes *)

Pids == 1..MaxProcs

\* a free entry of the process table
NoProc ==
    [kind |-> "none", stdin |-> FALSE, state |-> "free",
     quits |-> 0, writeFailed |-> FALSE, kills |-> 0]

\* Command::new(..).stdin(Stdio::piped()).spawn(): a running child whose
\* stdin handle is held in the Child (screen and camera recordings).
\* The preview child is spawned with stdout piped and no stdin handle.
NewChild(k) ==
    [kind |-> k,
     stdin |-> (k \in RecordingKinds),  \* Child.stdin is Some
     state |-> "live",                \* "live", then "exited", then "reaped"
     quits |-> 0,                     \* quit bytes written to its stdin
     writeFailed |-> FALSE,           \* a write_all(b"q") returned Err
     kills |-> 0]                     \* Child::kill calls issued

Exists(p) == procs[p] # NoProc
Live(p) == procs[p].state = "live"
LiveOfKind(k) == {p \in Pids : procs[p].kind = k /\ Live(p)}
FreePids == {p \in Pids : ~Exists(p)}
NextPid == CHOOSE p \in FreePids : \A q \in FreePids : p <= q

\* whether a slot or a command's local still holds the Child of p
Held(p, sl, ch) ==
    \/ \E m \in Mutexes : sl[m] = p
    \/ \E t \in Threads : ch[t] = p

\* A process that has exited and whose Child no slot and no local holds can
\* no longer be signalled, waited for or observed by any command: its entry
\* leaves the table.  A live process stays, held or not.
Collect(ps, sl, ch) ==
    [p \in Pids |->
        IF ps[p].state \in {"exited", "reaped"} /\ ~Held(p, sl, ch)
        THEN NoProc ELSE ps[p]]

\* the engine process exits (on its own, or after the quit byte or a kill)
ProcExit(p) ==
    /\ Live(p)
    /\ procs' = Collect([procs EXCEPT ![p].state = "exited"], slot, child)
    /\ UNCHANGED <<platform, slot, lock, pc, child, ret, cc, fs, rq, dm>>

----------------------------------------------------------------------------
(* Helpers shared by the commands *)

Resolutions == {"720p", "1080p", "source", "4k"}

\* ExportOptions.resolution is an Option<String>: a string, or "absent"
ExportResolutions == Resolutions \cup {"absent"}

\* match opts.resolution.as_str() of the two recording commands
ResolveRecordingOptions(res, hasSourceDims) ==
    CASE res = "720p" -> "ok"
      [] res = "1080p" -> "ok"
      [] res = "source" -> IF hasSourceDims THEN "ok" ELSE "SourceUnavailable"
      [] OTHER -> "InvalidResolution"

\* cfg!(target_os = "macos") / cfg!(target_os = "windows"), else Err
PlatformSupported == platform \in {"macos", "windows"}

\* how far a recording start gets: an error of its options, of its target,
\* of spawn(), or "spawned"
StartOutcome(res, hasSourceDims, spawnOk) ==
    LET v == ResolveRecordingOptions(res, hasSourceDims) IN
    IF v # "ok" THEN v
    ELSE IF ~PlatformSupported THEN "UnsupportedPlatform"
    ELSE IF ~spawnOk THEN "SpawnFailed"
    ELSE "spawned"

\* the outcomes over every input of a call
StartOutcomes ==
    {StartOutcome(res, d, ok) : res \in Resolutions, d \in BOOLEAN, ok \in BOOLEAN}

\* the command returns r to its caller; its locals are dropped
Return(t, r) ==
    /\ pc' = [pc EXCEPT ![t] = "idle"]
    /\ ret' = [ret EXCEPT ![t] = r]
    /\ child' = [child EXCEPT ![t] = None]

\* the command goes on to `label` holding Child p in a local
Goto(t, label, p) ==
    /\ pc' = [pc EXCEPT ![t] = label]
    /\ ret' = [ret EXCEPT ![t] = "pending"]
    /\ child' = [child EXCEPT ![t] = p]

\* the kind of the command thread t is in the middle of
KindOf(t) == IF child[t] = None THEN "preview" ELSE procs[child[t]].kind

\* Mutex::lock() returns only when no other guard exists
CanLock(m) == lock[m] = NoThread

Acquire(m, t) == [lock EXCEPT ![m] = t]

\* the MutexGuard is dropped at the end of the function
Release(m) == [lock EXCEPT ![m] = NoThread]

\* (mutant) the Child is read without being taken out of the Option
TakeChild_Borrow(m) == slot

\* (mutant) a stop empties the slot of every kind
TakeChild_EverySlot(m) == [x \in Mutexes |-> None]

\* process.take(): the Option is left None
TakeChild(m) == [slot EXCEPT ![m] = None]

\* *process = Some(child): the previous Child, if any, is dropped.
\* Dropping a std::process::Child neither kills nor waits for the process.
StoreChild(m, p) == [slot EXCEPT ![m] = p]

\* (mutant) the kill is issued after a successful quit byte as well
NeedsKill_Always(hasStdin, writeOk) == TRUE

\* stop: whether the forced kill is issued, given the stdin handle and the
\* outcome of write_all(b"q")
NeedsKill(hasStdin, writeOk) == ~hasStdin \/ ~writeOk

----------------------------------------------------------------------------
(* start_screen_recording / start_camera_recording *)

\* (mutant) the engine is spawned before the options and the target are
\* looked at
StartRecordingSpawn_SpawnsFirst(t, k) ==
    /\ pc[t] = "idle"
    /\ FreePids # {}
    /\ procs' = [procs EXCEPT ![NextPid] = NewChild(k)]
    /\ \E o \in StartOutcomes :
         IF o # "spawned" THEN Return(t, o) ELSE Goto(t, "start_store", NextPid)
    /\ UNCHANGED <<platform, slot, lock, cc, fs, rq, dm>>

\* Up to and including spawn(): options, platform arguments, spawn.  No
\* lock is held and the slot is not read.
StartRecordingSpawn(t, k) ==
    /\ pc[t] = "idle"
    /\ \E o \in StartOutcomes :
         IF o # "spawned" THEN
             /\ Return(t, o)
             /\ UNCHANGED procs
         ELSE
             /\ FreePids # {}
             /\ procs' = [procs EXCEPT ![NextPid] = NewChild(k)]
             /\ Goto(t, "start_store", NextPid)
    /\ UNCHANGED <<platform, slot, lock, cc, fs, rq, dm>>

\* let mut process = X.lock().unwrap(); *process = Some(child); Ok(..)
StartRecordingStore(t) ==
    /\ pc[t] = "start_store"
    /\ CanLock(ProcessSlot(KindOf(t)))
    /\ slot' = StoreChild(ProcessSlot(KindOf(t)), child[t])
    /\ Return(t, "Started")
    /\ procs' = Collect(procs, slot', child')
    /\ UNCHANGED <<platform, lock, cc, fs, rq, dm>>

start_screen_recording(t) == StartRecordingSpawn(t, "screen")
start_camera_recording(t) == StartRecordingSpawn(t, "camera")

----------------------------------------------------------------------------
(* start_screen_preview *)

\* (mutant) the start goes on to spawn without looking at the slot
start_screen_preview_NoRunningCheck(t) ==
    /\ pc[t] = "idle"
    /\ CanLock(ProcessSlot("preview"))
    /\ lock' = Acquire(ProcessSlot("preview"), t)
    /\ Goto(t, "preview_spawn", None)
    /\ UNCHANGED <<platform, slot, procs, cc, fs, rq, dm>>

\* SCREEN_PREVIEW_PROCESS.lock(); if process.is_some() { return Err(..) }
start_screen_preview(t) ==
    /\ pc[t] = "idle"
    /\ CanLock(ProcessSlot("preview"))
    /\ IF Running("preview") THEN
           /\ Return(t, "AlreadyRunning")
           /\ UNCHANGED lock
       ELSE
           /\ lock' = Acquire(ProcessSlot("preview"), t)
           /\ Goto(t, "preview_spawn", None)
    /\ UNCHANGED <<platform, slot, procs, cc, fs, rq, dm>>

\* platform arguments, spawn, reader thread, *process = Some(child); the
\* guard taken at the top is still held and is released on return
StartPreviewSpawn(t) ==
    /\ pc[t] = "preview_spawn"
    /\ \E spawnOk \in BOOLEAN :
         IF ~PlatformSupported THEN
             /\ Return(t, "UnsupportedPlatform")
             /\ UNCHANGED <<procs, slot>>
         ELSE IF ~spawnOk THEN
             /\ Return(t, "SpawnFailed")
             /\ UNCHANGED <<procs, slot>>
         ELSE
             /\ FreePids # {}
             /\ procs' = [procs EXCEPT ![NextPid] = NewChild("preview")]
             /\ slot' = StoreChild(ProcessSlot("preview"), NextPid)
             /\ Return(t, "Started")
    /\ lock' = Release(ProcessSlot("preview"))
    /\ UNCHANGED <<platform, cc, fs, rq, dm>>

----------------------------------------------------------------------------
(* stop_screen_recording / stop_camera_recording / stop_screen_preview *)

\* (mutant) stop on an Idle slot reports success
StopIdle_ReportsStopped(t) == Return(t, "Stopped")

\* } else { Err("No recording in progress") }
StopIdle(t) == Return(t, "NoProcess")

\* X.lock().unwrap(); if let Some(mut child) = process.take() {..} else Err
StopTake(t, k) ==
    /\ pc[t] = "idle"
    /\ CanLock(ProcessSlot(k))
    /\ IF Running(k) THEN
           /\ slot' = TakeChild(ProcessSlot(k))
           /\ lock' = Acquire(ProcessSlot(k), t)
           /\ Goto(t, "stop_signal", slot[ProcessSlot(k)])
       ELSE
           /\ StopIdle(t)
           /\ UNCHANGED <<slot, lock>>
    /\ UNCHANGED <<platform, procs, cc, fs, rq, dm>>

stop_screen_recording(t) == StopTake(t, "screen")
stop_camera_recording(t) == StopTake(t, "camera")
stop_screen_preview(t) == StopTake(t, "preview")

\* child.kill() returned Err: the ? returns at once, the guard and the Child
\* are dropped, the process is neither waited for nor tracked any more
KillFailed(t) ==
    /\ Return(t, "KillFailed")
    /\ lock' = Release(ProcessSlot(KindOf(t)))

\* after the signal: on to child.wait(), the guard still held
ToWait(t) ==
    /\ Goto(t, "stop_wait", child[t])
    /\ UNCHANGED lock

\* The recording commands: child.stdin.take(), write_all(b"q") and, when
\* there is no handle or the write fails, child.kill().
StopRecordingSignal(t) ==
    /\ pc[t] = "stop_signal"
    /\ KindOf(t) \in RecordingKinds
    /\ \E writeOk \in BOOLEAN, killOk \in BOOLEAN :
         LET p == child[t]
             wrote == procs[p].stdin /\ writeOk
             tried == [procs EXCEPT ![p].quits = @ + (IF wrote THEN 1 ELSE 0),
                                    ![p].writeFailed = procs[p].stdin /\ ~writeOk]
         IN
         IF NeedsKill(procs[p].stdin, writeOk) THEN
             /\ IF killOk THEN ToWait(t) ELSE KillFailed(t)
             /\ procs' = Collect([tried EXCEPT ![p].kills = @ + 1], slot, child')
         ELSE
             /\ ToWait(t)
             /\ procs' = tried
    /\ UNCHANGED <<platform, slot, cc, fs, rq, dm>>

\* The preview command: child.kill() with no attempt at a graceful quit.
StopPreviewSignal(t) ==
    /\ pc[t] = "stop_signal"
    /\ KindOf(t) = "preview"
    /\ \E killOk \in BOOLEAN :
         IF killOk THEN ToWait(t) ELSE KillFailed(t)
    /\ procs' = Collect([procs EXCEPT ![child[t]].kills = @ + 1], slot, child')
    /\ UNCHANGED <<platform, slot, cc, fs, rq, dm>>

\* (mutant) the wait gives up on an engine that has not exited
StopWait_GivesUp(t) ==
    /\ pc[t] = "stop_wait"
    /\ Return(t, "WaitFailed")
    /\ procs' = Collect(procs, slot, child')
    /\ lock' = Release(ProcessSlot(KindOf(t)))
    /\ UNCHANGED <<platform, slot, cc, fs, rq, dm>>

\* child.wait(): returns once the process has exited; Ok collects the exit
\* status, Err is passed on by the ?.  The guard is dropped on return.
StopWait(t) ==
    /\ pc[t] = "stop_wait"
    /\ ~Live(child[t])
    /\ \E waitOk \in BOOLEAN :
         IF waitOk THEN
             /\ Return(t, "Stopped")
             /\ procs' = Collect([procs EXCEPT ![child[t]].state = "reaped"],
                                 slot, child')
         ELSE
             /\ Return(t, "WaitFailed")
             /\ procs' = Collect(procs, slot, child')
    /\ lock' = Release(ProcessSlot(KindOf(t)))
    /\ UNCHANGED <<platform, slot, cc, fs, rq, dm>>

----------------------------------------------------------------------------
(* is_recording / is_camera_recording *)

\* let process = X.lock().unwrap(); process.is_some()
Status(t, k) ==
    /\ pc[t] = "idle"
    /\ CanLock(ProcessSlot(k))
    /\ Return(t, IF Running(k) THEN "true" ELSE "false")
    /\ UNCHANGED <<platform, slot, lock, procs, cc, fs, rq, dm>>

is_recording(t) == Status(t, "screen")
is_camera_recording(t) == Status(t, "camera")

----------------------------------------------------------------------------
(* Argument lists *)

\* An element of an argument list is a tagged tuple: a literal string, a
\* number printed with to_string(), a formatted time, a track's path.
Str(s) == <<"str", s>>
Num(n) == <<"num", n>>
PathOf(id) == <<"path", id>>

----------------------------------------------------------------------------
(* concatenate_clips: the scratch directory *)

\* Every invocation computes the same path, temp_dir()/clipforge_<process
\* id>: the invocations of one application process share one directory.
\* `files` maps each name used inside it to the invocation that wrote the
\* file last, or NoOp when the file does not exist.
NoOp == "none"
SegmentFiles == {<<"segment", i>> : i \in 0..(MaxClips - 1)}
TempFiles == SegmentFiles \cup {<<"concat_list">>, <<"temp_concat">>}

NoTempDir == [exists |-> FALSE, files |-> [f \in TempFiles |-> NoOp]]

\* std::fs::create_dir_all(&temp_dir): Ok also when the directory exists
CreateDirAll(dir) == [dir EXCEPT !.exists = TRUE]

\* a file of the directory is created or overwritten by invocation o
WriteFile(dir, f, o) == [dir EXCEPT !.files[f] = o]

\* let _ = std::fs::remove_dir_all(&temp_dir): the directory and all it
\* holds are gone when the call succeeds; its error is dropped
RemoveDirAll(dir, rmOk) == IF rmOk THEN NoTempDir ELSE dir

----------------------------------------------------------------------------
(* concatenate_clips: one invocation *)

NotCalled ==
    [pc |-> "idle",        \* position in the function
     n |-> 0,              \* clips.len()
     i |-> 0,              \* index of the clip being extracted
     pip |-> FALSE,        \* pip_track.is_some()
     res |-> "absent",     \* opts.resolution
     dirCreated |-> FALSE, \* create_dir_all returned Ok
     cleanups |-> 0,       \* remove_dir_all calls made
     removed |-> "none",   \* what the last remove_dir_all returned
     segment_paths |-> << >>, \* segment_paths
     list |-> << >>,       \* the lines written to concat_list.txt
     log |-> << >>,        \* the engine processes spawned, in order
     result |-> "none"]    \* what the function returned

\* an engine process spawned by Command::status(), with the arguments it
\* was given and its exit status; status() spawns the process and waits for
\* its exit in the body of the command itself
Invocation(step, index, success, args) ==
    [step |-> step, index |-> index, success |-> success, args |-> args,
     wait |-> "inline"]

\* a path inside the scratch directory: temp_dir.join(name)
TempPath(f) == <<"temp", f>>

\* a field of clip i put into the arguments: its path, its clip_start
\* formatted, its clip_end - clip_start formatted
ClipArg(field, i) == <<"clip", field, i>>

CcUnchangedSup == UNCHANGED <<platform, slot, lock, procs, pc, child, ret, rq, dm>>

\* the function returns r
CcReturn(c, r) == [c EXCEPT !.pc = "done", !.result = r]

\* (mutant) a failed segment extraction is passed over and the function goes
\* on to write the concat list
CcCleanupReturn_PassesOverSegment(c, r, rmOk) ==
    IF r = "SegmentFailed"
    THEN [c EXCEPT !.pc = "write_list"]
    ELSE [c EXCEPT !.pc = "done", !.result = r, !.cleanups = @ + 1,
                   !.removed = IF rmOk THEN "ok" ELSE "failed"]

\* (mutant) a cleanup whose failure replaces the result of the function
CcCleanupReturn_Propagates(c, r, rmOk) ==
    [c EXCEPT !.pc = "done", !.result = IF rmOk THEN r ELSE "CleanupFailed",
              !.cleanups = @ + 1,
              !.removed = IF rmOk THEN "ok" ELSE "failed"]

\* let _ = remove_dir_all(&temp_dir): the function attempts the cleanup,
\* discards what it returned, and returns r
CcCleanupReturn(c, r, rmOk) ==
    [c EXCEPT !.pc = "done", !.result = r, !.cleanups = @ + 1,
              !.removed = IF rmOk THEN "ok" ELSE "failed"]

\* .status().map_err(..)? : the engine could not be spawned; the ? returns
\* the error at once
SpawnFailedReturn(c) == CcReturn(c, "SpawnFailed")

\* std::fs::write(..).map_err(..)? : the ? returns the error at once
WriteListFailedReturn(c) == CcReturn(c, "WriteListFailed")

\* match opts.resolution.as_deref() inside the loop: the -vf argument of a
\* segment extraction, "" when none is added; no arm returns an error
ConcatSegmentScale(res) ==
    CASE res = "source" -> ""
      [] res = "720p" -> "scale=-2:720"
      [] res = "1080p" -> "scale=-2:1080"
      [] OTHER -> ""

\* ffmpeg_args of the extraction of segment i
SegmentArgs(i, res) ==
    <<Str("-y"), Str("-ss"), ClipArg("start", i), Str("-i"), ClipArg("path", i),
      Str("-t"), ClipArg("duration", i),
      Str("-c:v"), Str("libx264"), Str("-preset"), Str("fast"),
      Str("-crf"), Str("18"), Str("-c:a"), Str("aac"), Str("-b:a"), Str("192k")>>
    \o (IF ConcatSegmentScale(res) = "" THEN << >>
        ELSE <<Str("-vf"), Str(ConcatSegmentScale(res))>>)
    \o <<TempPath(<<"segment", i>>)>>

\* concat_args, writing to out: the output path or temp_concat.mp4
ConcatArgs(out) ==
    <<Str("-y"), Str("-f"), Str("concat"), Str("-safe"), Str("0"),
      Str("-i"), TempPath(<<"concat_list">>), Str("-c"), Str("copy"), out>>

PipArgs_OneInput ==
    <<Str("-y"), Str("-i"), Str("pip.path"),
      Str("-filter_complex"), Str("filter_complex"),
      Str("-map"), Str("[v]"), Str("-map"), Str("[a]"),
      Str("-c:v"), Str("libx264"), Str("-preset"), Str("fast"),
      Str("-crf"), Str("18"), Str("-c:a"), Str("aac"), Str("-b:a"), Str("192k"),
      Str("output_path")>>

\* pip_args
PipArgs ==
    <<Str("-y"), Str("-i"), TempPath(<<"temp_concat">>), Str("-i"), Str("pip.path"),
      Str("-filter_complex"), Str("filter_complex"),
      Str("-map"), Str("[v]"), Str("-map"), Str("[a]"),
      Str("-c:v"), Str("libx264"), Str("-preset"), Str("fast"),
      Str("-crf"), Str("18"), Str("-c:a"), Str("aac"), Str("-b:a"), Str("192k"),
      Str("output_path")>>

\* one line of the concat list: file '<path>'
FileLine(path) == <<"file", path>>

ConcatContent_Reversed(paths) ==
    [k \in 1..Len(paths) |-> FileLine(paths[Len(paths) + 1 - k])]

\* concat_content: one line per segment path, in order
ConcatContent(paths) == [k \in 1..Len(paths) |-> FileLine(paths[k])]

ClipsEmpty_Never(n) == FALSE

\* clips.is_empty()
ClipsEmpty(n) == n = 0

\* clips.is_empty(), export options, create_dir_all
ConcatCall(o) ==
    /\ cc[o].pc = "idle"
    /\ \E n \in 0..MaxClips, pip \in BOOLEAN, res \in ExportResolutions,
          mkdirOk \in BOOLEAN :
         LET c == [cc[o] EXCEPT !.n = n, !.pip = pip, !.res = res] IN
         IF ClipsEmpty(n) THEN
             /\ cc' = [cc EXCEPT ![o] = CcReturn(c, "NoClips")]
             /\ UNCHANGED fs
         ELSE IF ~mkdirOk THEN
             /\ cc' = [cc EXCEPT ![o] = CcReturn(c, "CreateDirFailed")]
             /\ UNCHANGED fs
         ELSE
             /\ cc' = [cc EXCEPT ![o] = [c EXCEPT !.dirCreated = TRUE,
                                                  !.pc = "segment"]]
             /\ fs' = CreateDirAll(fs)
    /\ CcUnchangedSup

\* one turn of the loop over the clips: the extraction of segment i
ExtractSegment(o) ==
    /\ cc[o].pc = "segment"
    /\ LET c == cc[o]
           i == c.i
       IN
       \E spawnOk \in BOOLEAN, exitOk \in BOOLEAN, rmOk \in BOOLEAN :
         IF ~spawnOk THEN
             /\ cc' = [cc EXCEPT ![o] = SpawnFailedReturn(c)]
             /\ UNCHANGED fs
         ELSE IF ~exitOk THEN
             /\ cc' = [cc EXCEPT ![o] =
                          CcCleanupReturn([c EXCEPT !.log = Append(@, Invocation("segment", i, FALSE, SegmentArgs(i, c.res)))],
                                          "SegmentFailed", rmOk)]
             /\ fs' = RemoveDirAll(fs, rmOk)
         ELSE
             \* the engine can write the segment only into an existing directory
             /\ fs.exists
             /\ cc' = [cc EXCEPT ![o] =
                          [c EXCEPT !.log = Append(@, Invocation("segment", i, TRUE, SegmentArgs(i, c.res))),
                                    !.segment_paths = Append(@, TempPath(<<"segment", i>>)),
                                    !.i = i + 1,
                                    !.pc = IF i + 1 = c.n THEN "write_list" ELSE "segment"]]
             /\ fs' = WriteFile(fs, <<"segment", i>>, o)
    /\ CcUnchangedSup

\* std::fs::write(&concat_list_path, concat_content)
WriteConcatList(o) ==
    /\ cc[o].pc = "write_list"
    /\ \E writeOk \in BOOLEAN :
         IF ~writeOk THEN
             /\ cc' = [cc EXCEPT ![o] = WriteListFailedReturn(cc[o])]
             /\ UNCHANGED fs
         ELSE
             /\ fs.exists
             /\ cc' = [cc EXCEPT ![o] =
                          [cc[o] EXCEPT !.list = ConcatContent(cc[o].segment_paths),
                                        !.pc = IF cc[o].pip THEN "temp_concat" ELSE "final"]]
             /\ fs' = WriteFile(fs, <<"concat_list">>, o)
    /\ CcUnchangedSup

\* the files a concat-demux run reads: the list and the segments it names
ConcatInputsPresent(o) ==
    /\ fs.files[<<"concat_list">>] # NoOp
    /\ \A i \in 0..(cc[o].n - 1) : fs.files[<<"segment", i>>] # NoOp

\* if pip_track.is_none(): the final concat-demux run, cleanup, result
FinalConcat(o) ==
    /\ cc[o].pc = "final"
    /\ LET c == cc[o] IN
       \E spawnOk \in BOOLEAN, exitOk \in BOOLEAN, rmOk \in BOOLEAN :
         IF ~spawnOk THEN
             /\ cc' = [cc EXCEPT ![o] = SpawnFailedReturn(c)]
             /\ UNCHANGED fs
         ELSE
             /\ exitOk => ConcatInputsPresent(o)
             /\ cc' = [cc EXCEPT ![o] =
                          CcCleanupReturn([c EXCEPT !.log = Append(@, Invocation("concat_final", 0, exitOk, ConcatArgs(Str("output_path"))))],
                                          IF exitOk THEN "Ok" ELSE "ConcatFailed", rmOk)]
             /\ fs' = RemoveDirAll(fs, rmOk)
    /\ CcUnchangedSup

\* with a PiP track: the concat-demux run into temp_concat.mp4
TempConcat(o) ==
    /\ cc[o].pc = "temp_concat"
    /\ LET c == cc[o] IN
       \E spawnOk \in BOOLEAN, exitOk \in BOOLEAN, rmOk \in BOOLEAN :
         IF ~spawnOk THEN
             /\ cc' = [cc EXCEPT ![o] = SpawnFailedReturn(c)]
             /\ UNCHANGED fs
         ELSE IF ~exitOk THEN
             /\ cc' = [cc EXCEPT ![o] =
                          CcCleanupReturn([c EXCEPT !.log = Append(@, Invocation("concat_temp", 0, FALSE, ConcatArgs(TempPath(<<"temp_concat">>))))],
                                          "TempConcatFailed", rmOk)]
             /\ fs' = RemoveDirAll(fs, rmOk)
         ELSE
             /\ ConcatInputsPresent(o)
             /\ cc' = [cc EXCEPT ![o] =
                          [c EXCEPT !.log = Append(@, Invocation("concat_temp", 0, TRUE, ConcatArgs(TempPath(<<"temp_concat">>)))),
                                    !.pc = "overlay"]]
             /\ fs' = WriteFile(fs, <<"temp_concat">>, o)
    /\ CcUnchangedSup

\* the overlay run over temp_concat.mp4 and the PiP source, cleanup, result
PipOverlay(o) ==
    /\ cc[o].pc = "overlay"
    /\ LET c == cc[o] IN
       \E spawnOk \in BOOLEAN, exitOk \in BOOLEAN, rmOk \in BOOLEAN :
         IF ~spawnOk THEN
             /\ cc' = [cc EXCEPT ![o] = SpawnFailedReturn(c)]
             /\ UNCHANGED fs
         ELSE
             /\ exitOk => fs.files[<<"temp_concat">>] # NoOp
             /\ cc' = [cc EXCEPT ![o] =
                          CcCleanupReturn([c EXCEPT !.log = Append(@, Invocation("overlay", 0, exitOk, PipArgs))],
                                          IF exitOk THEN "Ok" ELSE "OverlayFailed", rmOk)]
             /\ fs' = RemoveDirAll(fs, rmOk)
    /\ CcUnchangedSup

----------------------------------------------------------------------------
(* trim_video and export_composite_video: the request and its arguments *)

\* start_time / end_time / clip times, in milliseconds
TimeSamples ==
    {-1000, 0, 500, 1000, 59999, 61500, 3599999, 3661001, 7322002}

\* Rust's % on a float: the remainder has the sign of the dividend
Rem(a, b) == IF a >= 0 THEN a % b ELSE -((-a) % b)

\* x.floor() as u32: a negative value saturates to 0
FloorAsU32(num, den) == IF num \div den < 0 THEN 0 ELSE num \div den

\* the minutes field counts the minutes of the whole time
format_time_TotalMinutes(ms) ==
    <<"time", FloorAsU32(ms, 3600000), FloorAsU32(ms, 60000), Rem(ms, 60000)>>

\* fn format_time(seconds: f64) -> String, "{:02}:{:02}:{:06.3}" of hours,
\* minutes and secs; the argument and the secs field are in milliseconds
format_time(ms) ==
    <<"time", FloorAsU32(ms, 3600000),
              FloorAsU32(Rem(ms, 3600000), 60000),
              Rem(ms, 60000)>>

TrimResolve_BitratesSwapped(res) ==
    CASE res = "720p" ->
             [ok |-> TRUE, should_scale |-> TRUE, scale_filter |-> "scale=1280:720", bitrate |-> "5000k"]
      [] res = "1080p" ->
             [ok |-> TRUE, should_scale |-> TRUE, scale_filter |-> "scale=1920:1080", bitrate |-> "2500k"]
      [] res \in {"source", "absent"} ->
             [ok |-> TRUE, should_scale |-> FALSE, scale_filter |-> "", bitrate |-> "8000k"]
      [] OTHER ->
             [ok |-> FALSE, should_scale |-> FALSE, scale_filter |-> "", bitrate |-> ""]

\* trim_video: match opts.resolution.as_deref()
TrimResolve(res) ==
    CASE res = "720p" ->
             [ok |-> TRUE, should_scale |-> TRUE, scale_filter |-> "scale=1280:720", bitrate |-> "2500k"]
      [] res = "1080p" ->
             [ok |-> TRUE, should_scale |-> TRUE, scale_filter |-> "scale=1920:1080", bitrate |-> "5000k"]
      [] res \in {"source", "absent"} ->
             [ok |-> TRUE, should_scale |-> FALSE, scale_filter |-> "", bitrate |-> "8000k"]
      [] OTHER ->
             [ok |-> FALSE, should_scale |-> FALSE, scale_filter |-> "", bitrate |-> ""]

\* trim_video: the engine's argument list
TrimArgs(start_time, end_time, res) ==
    LET v == TrimResolve(res) IN
    <<Str("-y"), Str("-ss"), format_time(start_time), Str("-i"), Str("input_path"),
      Str("-t"), Num(end_time - start_time)>>
    \o (IF v.should_scale THEN <<Str("-vf"), Str(v.scale_filter)>> ELSE << >>)
    \o (IF v.should_scale
        THEN <<Str("-c:v"), Str("libx264"), Str("-preset"), Str("fast"),
               Str("-b:v"), Str(v.bitrate)>>
        ELSE <<Str("-c"), Str("copy")>>)
    \o <<Str("-avoid_negative_ts"), Str("make_zero"), Str("output_path")>>

NoRequest ==
    [pc |-> "idle",       \* position in the command
     op |-> "none",       \* the command called
     res |-> "absent",    \* opts.resolution
     start_time |-> 0,    \* trim_video: start_time
     end_time |-> 0,      \* trim_video: end_time
     tracks |-> << >>,    \* export_composite_video: tracks
     size |-> << >>,      \* export_composite_video: output_width, output_height
     sorted |-> << >>,    \* export_composite_video: sorted_tracks
     filter |-> << >>,    \* export_composite_video: the filter graph built
     args |-> << >>,      \* the engine's argument list
     spawned |-> 0,       \* engine processes spawned
     exit |-> "none",     \* how the wait for the engine ended
     wait |-> "none",     \* where child.wait() was called
     result |-> "none"]   \* what the command returned

RqUnchangedRest ==
    UNCHANGED <<platform, slot, lock, procs, pc, child, ret, cc, fs, dm>>

\* the command returns r
RqReturn(r, result) == [r EXCEPT !.pc = "done", !.result = result]

trim_video ==
    /\ rq.pc = "idle"
    /\ \E start_time \in TimeSamples, end_time \in TimeSamples,
          res \in ExportResolutions :
         LET r == [rq EXCEPT !.op = "trim", !.res = res,
                             !.start_time = start_time, !.end_time = end_time]
         IN
         IF ~TrimResolve(res).ok
         THEN rq' = RqReturn(r, "InvalidResolution")
         ELSE rq' = [r EXCEPT !.args = TrimArgs(start_time, end_time, res),
                              !.pc = "spawn"]
    /\ RqUnchangedRest

\* Command::new(&ffmpeg_path).args(&args).spawn().map_err(..)?
RqSpawn ==
    /\ rq.pc = "spawn"
    /\ \E spawnOk \in BOOLEAN :
         IF spawnOk
         THEN rq' = [rq EXCEPT !.spawned = @ + 1, !.pc = "wait"]
         ELSE rq' = RqReturn(rq, "SpawnFailed")
    /\ RqUnchangedRest

\* spawn_blocking(move || child.wait()).await, then the exit status
WaitOutcomes == {"success", "nonzero", "wait_error", "join_error"}

RqWait ==
    /\ rq.pc = "wait"
    /\ \E w \in WaitOutcomes :
         rq' = RqReturn([rq EXCEPT !.exit = w, !.wait = "spawn_blocking"],
                        CASE w = "success" -> "Ok"
                          [] w = "nonzero" -> "EngineFailed"
                          [] w = "wait_error" -> "WaitFailed"
                          [] OTHER -> "JoinFailed")
    /\ RqUnchangedRest

----------------------------------------------------------------------------
(* export_composite_video *)

\* a TrackExportData: its path (named by its place in the request) and z_index
Track(id, z) == [path |-> id, z_index |-> z]

ZIndexes == 0..MaxZ

\* the requests: every list of at most MaxTracks tracks
TrackLists ==
    UNION {{[i \in 1..n |-> Track(i, z[i])] : z \in [1..n -> ZIndexes]} : n \in 0..MaxTracks}

\* canvas_width, canvas_height
CanvasSizes == {<<1280, 720>>, <<640, 480>>}

\* t goes behind every element whose key is not greater than its own
InsertByKey_BeforeEqual(sorted, t) ==
    LET before == SelectSeq(sorted, LAMBDA u : u.z_index < t.z_index)
        after == SelectSeq(sorted, LAMBDA u : u.z_index >= t.z_index)
    IN before \o <<t>> \o after

InsertByKey(sorted, t) ==
    LET before == SelectSeq(sorted, LAMBDA u : u.z_index <= t.z_index)
        after == SelectSeq(sorted, LAMBDA u : u.z_index > t.z_index)
    IN before \o <<t>> \o after

\* sorted_tracks.sort_by_key(|t| t.z_index): a stable sort
RECURSIVE SortByKey(_)
SortByKey(ts) ==
    IF ts = << >> THEN << >>
    ELSE InsertByKey(SortByKey(SubSeq(ts, 1, Len(ts) - 1)), ts[Len(ts)])

\* export_composite_video: match opts.resolution.as_deref()
CompositeResolve(res, canvas) ==
    CASE res = "720p" -> [ok |-> TRUE, width |-> 1280, height |-> 720, bitrate |-> "2500k"]
      [] res = "1080p" -> [ok |-> TRUE, width |-> 1920, height |-> 1080, bitrate |-> "5000k"]
      [] res \in {"source", "absent"} ->
             [ok |-> TRUE, width |-> canvas[1], height |-> canvas[2], bitrate |-> "8000k"]
      [] OTHER -> [ok |-> FALSE, width |-> 0, height |-> 0, bitrate |-> ""]

\* the labels of the filter graph: [bg], [i:v], [i:a], [vi], [ai], [tmpi],
\* [vout], [aout]; i counts from 0 as enumerate() does
Pad(name, i) == <<name, i>>

\* the two filter_parts pushed for the track at index i
TrackFilters(i) ==
    <<[filter |-> "scale", in |-> <<Pad("in:v", i)>>, out |-> Pad("v", i)],
      [filter |-> "volume", in |-> <<Pad("in:a", i)>>, out |-> Pad("a", i)]>>

\* the overlay pushed onto overlay_chain for the track at index i of n
OverlayLink(i, n) ==
    IF i = 0 THEN
        [filter |-> "overlay", in |-> <<Pad("bg", 0), Pad("v", 0)>>, out |-> Pad("tmp", 0)]
    ELSE IF i = n - 1 THEN
        [filter |-> "overlay", in |-> <<Pad("tmp", i - 1), Pad("v", i)>>, out |-> Pad("vout", 0)]
    ELSE
        [filter |-> "overlay", in |-> <<Pad("tmp", i - 1), Pad("v", i)>>, out |-> Pad("tmp", i)]

OverlayChain_LoopOnly(n) == [k \in 1..n |-> OverlayLink(k - 1, n)]

\* overlay_chain after the loop and the single-track case
OverlayChain(n) ==
    IF n = 1
    THEN <<[filter |-> "overlay", in |-> <<Pad("bg", 0), Pad("v", 0)>>, out |-> Pad("vout", 0)]>>
    ELSE [k \in 1..n |-> OverlayLink(k - 1, n)]

\* audio_mix
AudioMix(n) ==
    IF n > 1
    THEN [filter |-> "amix", in |-> [k \in 1..n |-> Pad("a", k - 1)], out |-> Pad("aout", 0)]
    ELSE [filter |-> "anull", in |-> <<Pad("a", 0)>>, out |-> Pad("aout", 0)]

RECURSIVE FlattenSeq(_)
FlattenSeq(ss) == IF ss = << >> THEN << >> ELSE Head(ss) \o FlattenSeq(Tail(ss))

\* complete_filter: the canvas, the tracks' filters, the overlays, the mix
CompleteFilter(n) ==
    <<[filter |-> "color", in |-> << >>, out |-> Pad("bg", 0)]>>
    \o FlattenSeq([k \in 1..n |-> TrackFilters(k - 1)])
    \o OverlayChain(n)
    \o <<AudioMix(n)>>

\* export_composite_video: the engine's argument list
CompositeArgs(sorted, bitrate) ==
    <<Str("-y")>>
    \o FlattenSeq([k \in 1..Len(sorted) |-> <<Str("-i"), PathOf(sorted[k].path)>>])
    \o <<Str("-filter_complex"), Str("complete_filter"),
         Str("-map"), Str("[vout]"), Str("-map"), Str("[aout]"),
         Str("-c:v"), Str("libx264"), Str("-preset"), Str("fast"),
         Str("-b:v"), Str(bitrate),
         Str("-c:a"), Str("aac"), Str("-b:a"), Str("192k"),
         Str("-pix_fmt"), Str("yuv420p"), Str("output_path")>>

export_composite_video ==
    /\ rq.pc = "idle"
    /\ \E tracks \in TrackLists, canvas \in CanvasSizes, res \in ExportResolutions :
         LET r == [rq EXCEPT !.op = "composite", !.res = res, !.tracks = tracks]
             v == CompositeResolve(res, canvas)
             sorted_tracks == SortByKey(tracks)
         IN
         IF tracks = << >> THEN rq' = RqReturn(r, "NoTracks")
         ELSE IF ~v.ok THEN rq' = RqReturn(r, "InvalidResolution")
         ELSE rq' = [r EXCEPT !.sorted = sorted_tracks,
                              !.size = <<v.width, v.height>>,
                              !.filter = CompleteFilter(Len(sorted_tracks)),
                              !.args = CompositeArgs(sorted_tracks, v.bitrate),
                              !.pc = "spawn"]
    /\ RqUnchangedRest

----------------------------------------------------------------------------
(* start_screen_recording / start_camera_recording: the arguments *)

\* the targets the two commands have arguments for
RecordingTargets == {"macos", "windows"}

\* opts.source_width, opts.source_height when both are Some
SourceSize == <<2560, 1440>>

\* let (width, height, bitrate) = match opts.resolution.as_str(), the same
\* match in both commands
RecordingResolve(res, hasSourceDims) ==
    CASE res = "720p" -> [ok |-> TRUE, width |-> 1280, height |-> 720, bitrate |-> "2500k"]
      [] res = "1080p" -> [ok |-> TRUE, width |-> 1920, height |-> 1080, bitrate |-> "5000k"]
      [] res = "source" /\ hasSourceDims ->
             [ok |-> TRUE, width |-> SourceSize[1], height |-> SourceSize[2], bitrate |-> "8000k"]
      [] OTHER -> [ok |-> FALSE, width |-> 0, height |-> 0, bitrate |-> ""]

\* -c:a aac -b:a 192k
AudioEncoding == <<Str("-c:a"), Str("aac"), Str("-b:a"), Str("192k")>>

\* start_screen_recording: args, for the build target os
ScreenRecordingArgs(os, audio, v) ==
    (IF os = "macos"
     THEN <<Str("-f"), Str("avfoundation"), Str("-framerate"), Str("30"),
            Str("-i"), Str(IF audio THEN "1:0" ELSE "1")>>
     ELSE <<Str("-f"), Str("gdigrab"), Str("-framerate"), Str("30"),
            Str("-i"), Str("desktop")>>
          \o (IF audio
              THEN <<Str("-f"), Str("dshow"), Str("-i"), Str("windows_audio_input")>>
              ELSE << >>))
    \o <<Str("-vf"), <<"scale", v.width, v.height>>,
         Str("-pix_fmt"), Str("yuv420p"),
         Str("-c:v"), Str("libx264"), Str("-preset"), Str("ultrafast"),
         Str("-b:v"), Str(v.bitrate)>>
    \o (IF audio THEN AudioEncoding ELSE << >>)
    \o <<Str("output_path")>>

\* start_camera_recording: args, for the build target os
CameraRecordingArgs(os, audio, v) ==
    <<Str("-f"), Str(IF os = "macos" THEN "avfoundation" ELSE "dshow"),
      Str("-framerate"), Str("30"),
      Str("-video_size"), <<"size", v.width, v.height>>,
      Str("-i"), Str(IF os = "macos" THEN "0:0" ELSE "windows_input_str"),
      Str("-pix_fmt"), Str("yuv420p"),
      Str("-c:v"), Str("libx264"), Str("-preset"), Str("ultrafast"),
      Str("-b:v"), Str(v.bitrate)>>
    \o (IF os = "macos" \/ audio THEN AudioEncoding ELSE << >>)
    \o <<Str("output_path")>>

\* a recording start, from its options to spawn(): the options are resolved,
\* the arguments built and the engine spawned with them.  What the command
\* then does with the child, the slot and its mutex, is StartRecordingStore
\* of the supervisor.
StartRecordingArgs ==
    /\ rq.pc = "idle"
    /\ \E k \in RecordingKinds, os \in RecordingTargets, audio \in BOOLEAN,
          res \in Resolutions, hasSourceDims \in BOOLEAN, spawnOk \in BOOLEAN :
         LET v == RecordingResolve(res, hasSourceDims)
             r == [rq EXCEPT !.op = IF k = "screen" THEN "start_screen_recording"
                                    ELSE "start_camera_recording",
                             !.res = res]
         IN
         IF ~v.ok
         THEN rq' = RqReturn(r, IF res = "source" THEN "SourceUnavailable"
                                ELSE "InvalidResolution")
         ELSE IF ~spawnOk
         THEN rq' = RqReturn([r EXCEPT !.args = IF k = "screen"
                                                THEN ScreenRecordingArgs(os, audio, v)
                                                ELSE CameraRecordingArgs(os, audio, v)],
                             "SpawnFailed")
         ELSE rq' = RqReturn([r EXCEPT !.args = IF k = "screen"
                                                THEN ScreenRecordingArgs(os, audio, v)
                                                ELSE CameraRecordingArgs(os, audio, v),
                                       !.spawned = @ + 1],
                             "Started")
    /\ RqUnchangedRest

----------------------------------------------------------------------------
(* The reader thread of the screen preview: the JPEG demuxer *)

\* the byte values the scan tells apart; a D8 or D9 that does not follow an
\* FF, and an FF followed by an FF, are ordinary bytes of the stream
Bytes == {"FF", "D8", "D9"}
jpeg_start == <<"FF", "D8">>
jpeg_end == <<"FF", "D9">>

\* what one read() can return when the stream has `room` bytes to go: at
\* least one byte, at most all of them (temp_buf holds 8192)
Chunks(room) == UNION {[1..n -> Bytes] : n \in 1..room}

\* buffer.windows(2).position(|w| w == marker): the index, counted from 1,
\* of the first window equal to the marker, or 0 for None
Position(buf, marker) ==
    LET hits == {i \in 1..(Len(buf) - 1) : buf[i] = marker[1] /\ buf[i + 1] = marker[2]}
    IN IF hits = {} THEN 0 ELSE CHOOSE i \in hits : \A j \in hits : i <= j

DrainBefore_Keep(buf, start_pos) == buf

\* (mutant) the drain stops one byte short of the start marker
DrainBefore_KeepsOneByte(buf, start_pos) ==
    SubSeq(buf, IF start_pos > 1 THEN start_pos - 1 ELSE 1, Len(buf))

\* if start_pos > 0 { buffer.drain(..start_pos); }
DrainBefore(buf, start_pos) == SubSeq(buf, start_pos, Len(buf))

FrameData_WithoutLastByte(buf, end_pos) == SubSeq(buf, 1, end_pos)

\* buffer.drain(..(end_pos + 2)).collect(): the frame taken from the front
FrameData(buf, end_pos) == SubSeq(buf, 1, end_pos + 1)

\* what is left in the buffer after that drain
AfterFrame(buf, end_pos) == SubSeq(buf, end_pos + 2, Len(buf))

Partial_Dropped(buf) == << >>

\* no end marker yet: break, the buffer is left as it is
Partial(buf) == buf

ScanGoesOn_OneFrame(frames, before) == Len(frames) = before

\* while let Some(start_pos) = ..: the loop goes round after each frame
ScanGoesOn(frames, before) == TRUE

\* (mutant) a failed emit throws the buffered bytes away
Emitted_FailureClearsBuffer(st, ok) ==
    IF ok THEN st
    ELSE [st EXCEPT !.drained = @ + Len(st.buffer), !.buffer = << >>]

\* let _ = window.emit("screen-preview-frame", base64_frame): the Result is
\* dropped and the loop goes round with the buffer as the drain left it
Emitted(st, ok) == st

\* the frames a stream of MaxStream bytes can hold: a frame has the two
\* markers at least; what window.emit returns for each is the caller's
EmitResults == [1..(MaxStream \div 4) -> BOOLEAN]

\* the results of the emits one scan can make: it emits the frames after the
\* `before` emitted by earlier scans, at most one for each end marker in
\* its buffer
EmitResultsOf(buf, before) ==
    LET ends == Cardinality({i \in 1..(Len(buf) - 1) :
                                 <<buf[i], buf[i + 1]>> = jpeg_end})
    IN {e \in EmitResults :
           \A k \in DOMAIN e : (k <= before \/ k > before + ends) => e[k]}

\* The while loop over the buffer.  st.buffer is the Vec, st.frames the
\* frames emitted so far, st.drained the number of bytes of the stream
\* that have left the buffer, st.emit_ok[k] whether the emit of the k-th
\* frame returns Ok; before is Len(frames) when the scan began.
RECURSIVE Scan(_, _)
Scan(st, before) ==
    LET start_pos == Position(st.buffer, jpeg_start) IN
    IF start_pos = 0 \/ ~ScanGoesOn(st.frames, before) THEN st
    ELSE
        LET b1 == DrainBefore(st.buffer, start_pos)
            d1 == st.drained + (Len(st.buffer) - Len(b1))
            end_pos == Position(b1, jpeg_end)
        IN
        IF end_pos = 0
        THEN [st EXCEPT !.buffer = Partial(b1), !.drained = d1]
        ELSE Scan(Emitted([st EXCEPT !.buffer = AfterFrame(b1, end_pos),
                                     !.frames = Append(@, [data |-> FrameData(b1, end_pos),
                                                           at |-> d1]),
                                     !.drained = d1 + end_pos + 1],
                          st.emit_ok[Len(st.frames) + 1]),
                  before)

\* a read that ends between the two bytes of a marker: the buffer ended
\* with FF and the next chunk brings the marker's second byte
SplitMarker(buf, chunk) ==
    IF buf = << >> \/ buf[Len(buf)] # "FF" THEN {}
    ELSE IF chunk[1] = "D8" THEN {"start"}
    ELSE IF chunk[1] = "D9" THEN {"end"}
    ELSE {}

NoReader ==
    [pc |-> "idle",        \* "reading" inside the loop, "stopped" after break
     input |-> << >>,      \* the bytes read from the engine's stdout so far
     buffer |-> << >>,     \* buffer
     frames |-> << >>,     \* the frames emitted, with their offset in the stream
     drained |-> 0,        \* bytes of the stream that have left the buffer
     emitted |-> 0,        \* frames emitted by the scan of the last read
     undelivered |-> {},   \* the frames whose emit returned Err
     stop |-> "none",      \* why the loop was left: "eof" or "error"
     split |-> {}]         \* markers a read boundary has fallen inside

Reading == [NoReader EXCEPT !.pc = "reading"]

DmUnchangedRest ==
    UNCHANGED <<platform, slot, lock, procs, pc, child, ret, cc, fs, rq>>

\* Ok(n): buffer.extend_from_slice(&temp_buf[..n]) and the scan
ReadChunk ==
    /\ dm.pc = "reading"
    /\ \E chunk \in Chunks(MaxStream - Len(dm.input)) :
        \E emit_ok \in EmitResultsOf(dm.buffer \o chunk, Len(dm.frames)) :
            LET st == Scan([buffer |-> dm.buffer \o chunk,
                            frames |-> dm.frames,
                            drained |-> dm.drained,
                            emit_ok |-> emit_ok], Len(dm.frames))
            IN dm' = [dm EXCEPT !.input = @ \o chunk,
                                !.undelivered =
                                    @ \cup {k \in (Len(dm.frames) + 1)..Len(st.frames) :
                                               ~emit_ok[k]},
                                !.buffer = st.buffer,
                                !.frames = st.frames,
                                !.drained = st.drained,
                                !.emitted = Len(st.frames) - Len(dm.frames),
                                !.split = @ \cup SplitMarker(dm.buffer, chunk)]
    /\ DmUnchangedRest

StopReader_FlushesPartial(d) ==
    [d EXCEPT !.pc = "stopped",
              !.frames = IF d.buffer = << >> THEN @
                         ELSE Append(@, [data |-> d.buffer, at |-> d.drained])]

\* break: the closure returns, buffer and stdout are dropped
StopReader(d) == [d EXCEPT !.pc = "stopped"]

\* the match arm that left the loop
StoppedBy(d, why) == [d EXCEPT !.stop = why]

\* Ok(0) => break
ReadEof ==
    /\ dm.pc = "reading"
    /\ dm' = StoppedBy(StopReader(dm), "eof")
    /\ DmUnchangedRest

\* Err(e) => break
ReadError ==
    /\ dm.pc = "reading"
    /\ dm' = StoppedBy(StopReader(dm), "error")
    /\ DmUnchangedRest

----------------------------------------------------------------------------
(* The error strings of the one-shot commands *)

\* the values formatted into the Err(String) of a result: the engine's exit
\* status, the io error e, the segment index i, the resolution res
ErrorFields(result) ==
    CASE result = "EngineFailed" -> {"status"}
      [] result = "SegmentFailed" -> {"i"}
      [] result \in {"ConcatFailed", "TempConcatFailed", "OverlayFailed"} -> {}
      [] result \in {"NoClips", "NoTracks"} -> {}
      [] result = "InvalidResolution" -> {"res"}
      [] result \in {"SpawnFailed", "WaitFailed", "JoinFailed",
                     "CreateDirFailed", "WriteListFailed"} -> {"e"}
      [] OTHER -> {}

----------------------------------------------------------------------------
(* The supervisor's specification *)

SupInit ==
    /\ platform \in Platforms
    /\ slot = [m \in Mutexes |-> None]
    /\ lock = [m \in Mutexes |-> NoThread]
    /\ procs = [p \in Pids |-> NoProc]
    /\ pc = [t \in Threads |-> "idle"]
    /\ child = [t \in Threads |-> None]
    /\ ret = [t \in Threads |-> "none"]

Init ==
    /\ SupInit
    /\ cc = [o \in Ops |-> NotCalled]
    /\ fs = NoTempDir
    /\ rq = NoRequest
    /\ dm = NoReader

Next ==
    \/ \E t \in Threads :
         \/ start_screen_recording(t)
         \/ start_camera_recording(t)
         \/ StartRecordingStore(t)
         \/ start_screen_preview(t)
         \/ StartPreviewSpawn(t)
         \/ stop_screen_recording(t)
         \/ stop_camera_recording(t)
         \/ stop_screen_preview(t)
         \/ StopRecordingSignal(t)
         \/ StopPreviewSignal(t)
         \/ StopWait(t)
         \/ is_recording(t)
         \/ is_camera_recording(t)
    \/ \E p \in Pids : ProcExit(p)

Spec == Init /\ [][Next]_vars

\* child.wait() is a blocking system call on the command's own thread: once
\* the engine has exited the operating system lets it return
StopFairness == \A t \in Threads : WF_vars(StopWait(t))

FairSpec == Init /\ [][Next]_vars /\ StopFairness

ConcatStep(o) ==
    \/ ConcatCall(o)
    \/ ExtractSegment(o)
    \/ WriteConcatList(o)
    \/ FinalConcat(o)
    \/ TempConcat(o)
    \/ PipOverlay(o)

ConcatNext == \E o \in Ops : ConcatStep(o)

\* the supervisor at rest while the concatenations run
ConcatInit ==
    /\ SupInit
    /\ platform = "macos"
    /\ cc = [o \in Ops |-> NotCalled]
    /\ fs = NoTempDir
    /\ rq = NoRequest
    /\ dm = NoReader

ConcatSpec == ConcatInit /\ [][ConcatNext]_vars

----------------------------------------------------------------------------
(* Steps of the commands, as the claims speak of them *)

\* thread t takes a step of start(k)
StartStep(t, k) ==
    \/ k \in RecordingKinds /\ StartRecordingSpawn(t, k)
    \/ k \in RecordingKinds /\ KindOf(t) = k /\ StartRecordingStore(t)
    \/ k = "preview" /\ start_screen_preview(t)
    \/ k = "preview" /\ StartPreviewSpawn(t)

\* the first step of start(k)
StartCall(t, k) ==
    IF k = "preview" THEN start_screen_preview(t) ELSE StartRecordingSpawn(t, k)

\* a stop that found its session Running returns in this step
StopReturns(t) == pc[t] \in {"stop_signal", "stop_wait"} /\ pc'[t] = "idle"

\* thread t, idle, calls a command and the call changes something
StepFromIdle(t) == pc[t] = "idle" /\ (pc'[t] # "idle" \/ ret'[t] # ret[t])

\* thread t is inside stop, blocked in child.wait() on an engine that has
\* not exited
BlockedInWait(t) == pc[t] = "stop_wait" /\ Live(child[t])

\* the step adds no entry to the process table
NoSpawn == \A p \in Pids : ~Exists(p) => procs'[p] = NoProc

----------------------------------------------------------------------------
(* Claims about the supervisor *)

\* C1: for every capture kind, a start step taken while that kind's session
\* is Running spawns no engine process, leaves the slot holding the one
\* tracked process, and does not return success (it fails, with
\* AlreadyRunning).  Every part follows from the claim; the code breaks the
\* first for the screen and camera kinds.
C1_StartWhileRunningRejected ==
    [][\A t \in Threads, k \in Kinds :
          (StartStep(t, k) /\ Running(k)) =>
              /\ NoSpawn
              /\ slot' = slot
              /\ ret'[t] # "Started"
      ]_vars

\* C2: in every reachable state each kind has at most one live engine
\* process, and every live engine process is held by that kind's slot or by
\* the command that is starting or stopping it.
C2_OneTrackedProcessPerKind ==
    \A k \in Kinds :
        /\ Cardinality(LiveOfKind(k)) <= 1
        /\ \A p \in LiveOfKind(k) :
              \/ slot[ProcessSlot(k)] = p
              \/ \E t \in Threads : child[t] = p

\* C3: whenever a stop that found its session Running returns, whatever the
\* outcome of the write, the kill and the wait, that kind's slot is Idle and
\* its lock is free; and on an Idle slot status answers false and stop
\* answers NoProcess.
C3_StopLeavesIdle ==
    [][\A t \in Threads :
          /\ StopReturns(t) =>
                 /\ slot'[ProcessSlot(KindOf(t))] = None
                 /\ lock'[ProcessSlot(KindOf(t))] = NoThread
          /\ StepFromIdle(t) =>
                 \A k \in Kinds :
                     ~Running(k) =>
                         /\ (k \in RecordingKinds /\ Status(t, k)) => ret'[t] = "false"
                         /\ StopTake(t, k) => ret'[t] = "NoProcess"
      ]_vars

\* a stop whose kill or wait failed has returned and every slot is Idle
C3_Witness ==
    \E t \in Threads :
        /\ pc[t] = "idle"
        /\ ret[t] \in {"KillFailed", "WaitFailed"}
        /\ \A m \in Mutexes : slot[m] = None

\* C4: a stop that found its session Running does not return before the
\* engine process has exited: after the returning step the process is not
\* live.
C4_StopReturnsAfterExit ==
    [][\A t \in Threads :
          StopReturns(t) => procs'[child[t]].state # "live"
      ]_vars

\* C5: stop on an Idle kind returns NoProcess at once, signals and waits
\* for no process, leaves the slot Idle and takes no lock.
C5_StopIdleNoProcess ==
    [][\A t \in Threads :
          StepFromIdle(t) =>
              \A k \in Kinds :
                  (~Running(k) /\ StopTake(t, k)) =>
                      /\ ret'[t] = "NoProcess"
                      /\ pc'[t] = "idle"
                      /\ procs' = procs
                      /\ slot' = slot
                      /\ lock' = lock
      ]_vars

\* a stop on an Idle kind has returned NoProcess
C5_Witness ==
    \E t \in Threads : pc[t] = "idle" /\ ret[t] = "NoProcess"

\* C6: a kill is issued exactly when the process has no stdin handle or the
\* write of the quit byte failed; after a successful write there is no
\* kill; the quit byte is written at most once.
C6_KillIffNoGracefulQuit ==
    \A p \in Pids :
        /\ procs[p].quits <= 1
        /\ procs[p].kills <= 1
        /\ procs[p].quits = 1 => procs[p].kills = 0
        /\ procs[p].kills = 1 => (~procs[p].stdin \/ procs[p].writeFailed)
        /\ procs[p].writeFailed => procs[p].kills = 1
        /\ \A t \in Threads :
              (pc[t] = "stop_wait" /\ child[t] = p) =>
                  /\ ~procs[p].stdin => procs[p].kills = 1
                  /\ (procs[p].stdin /\ ~procs[p].writeFailed) => procs[p].quits = 1

\* a stop whose quit-byte write failed has issued the kill and is waiting
C6_Witness ==
    \E t \in Threads :
        /\ pc[t] = "stop_wait"
        /\ procs[child[t]].writeFailed
        /\ procs[child[t]].kills = 1

\* C7: status never waits for a subprocess to exit: while a stop of the
\* same kind is blocked waiting for its engine, a status call can still run.
C7_StatusNeverWaits ==
    \A t, u \in Threads, k \in RecordingKinds :
        (pc[t] = "idle" /\ BlockedInWait(u) /\ KindOf(u) = k)
            => ENABLED Status(t, k)

\* C8: while a command of one kind is in progress, blocked or not, every
\* command of another kind can be started by an idle thread, and a command
\* in progress can take its next step unless it waits for its own engine or
\* for its own kind's lock.
C8_KindsIndependent ==
    /\ \A t, u \in Threads, k \in Kinds :
          (/\ pc[t] = "idle" /\ pc[u] # "idle" /\ KindOf(u) # k
           /\ \A w \in Threads \ {u} : pc[w] = "idle")
              => /\ ENABLED StartCall(t, k)
                 /\ ENABLED StopTake(t, k)
                 /\ k \in RecordingKinds => ENABLED Status(t, k)
    /\ \A t \in Threads :
          (/\ pc[t] # "idle"
           /\ ~BlockedInWait(t)
           /\ lock[ProcessSlot(KindOf(t))] \in {NoThread, t})
              => ENABLED (\/ StartRecordingStore(t) \/ StartPreviewSpawn(t)
                          \/ StopRecordingSignal(t) \/ StopPreviewSignal(t)
                          \/ StopWait(t))

\* a stop of one kind is blocked on its engine while another thread is in
\* the middle of a command of another kind
C8_Witness ==
    \E t, u \in Threads :
        /\ BlockedInWait(u)
        /\ pc[t] \in {"stop_signal", "preview_spawn"}
        /\ KindOf(t) # KindOf(u)

\* C9: a start and a stop of the same kind never overlap: no stop of a kind
\* is between taking the slot and returning while a start of that kind is
\* between spawning its engine and recording the handle.
C9_StartStopSerialized ==
    \A t, u \in Threads :
        ~(/\ t # u
          /\ pc[t] \in {"start_store", "preview_spawn"}
          /\ pc[u] \in {"stop_signal", "stop_wait"}
          /\ KindOf(t) = KindOf(u))

\* One export request, of any of the three one-shot commands, from its call
\* to its return.
ExportNext ==
    \/ /\ cc["op1"].pc = "idle"
       /\ \/ trim_video
          \/ export_composite_video
          \/ StartRecordingArgs
          \/ RqSpawn
          \/ RqWait
    \/ /\ rq.pc = "idle"
       /\ ConcatStep("op1")

ExportSpec == ConcatInit /\ [][ExportNext]_vars

\* The capture commands together with the one-shot commands.  The capture
\* commands run first; a one-shot command is called once every thread has
\* returned from a start, the engines of the screen and of the camera
\* recording are held by their slots and live and there is no other engine,
\* and runs to its end with the two sessions Running.
SessionNext ==
    \/ /\ rq.pc = "idle"
       /\ cc["op1"].pc = "idle"
       /\ Next
    \/ /\ \A t \in Threads : pc[t] = "idle" /\ ret[t] = "Started"
       /\ \A k \in RecordingKinds : Running(k) /\ Live(slot[ProcessSlot(k)])
       /\ \A p \in Pids :
              Exists(p) => \E k \in RecordingKinds : slot[ProcessSlot(k)] = p
       /\ ExportNext

SessionSpec == Init /\ [][SessionNext]_vars

\* the reader thread alone, from its start to its break
DemuxInit ==
    /\ SupInit
    /\ platform = "macos"
    /\ cc = [o \in Ops |-> NotCalled]
    /\ fs = NoTempDir
    /\ rq = NoRequest
    /\ dm = Reading

DemuxNext == ReadChunk \/ ReadEof \/ ReadError

DemuxSpec == DemuxInit /\ [][DemuxNext]_vars

\* C31: stop has no timeout.  While the engine it has signalled has not
\* exited, a stop stays in child.wait() and keeps its kind's lock; the only
\* way out of child.wait() is the return of the stop, after which the thread
\* holds no lock; and a stop does not stay for ever in child.wait() on an
\* engine that has exited, so that once the engine has exited the stop
\* eventually returns with the lock released.
C31_StopWaitsForExit ==
    /\ [][\A t \in Threads :
             /\ BlockedInWait(t) =>
                    /\ pc'[t] = "stop_wait"
                    /\ lock'[ProcessSlot(KindOf(t))] = t
             /\ (pc[t] = "stop_wait" /\ pc'[t] # "stop_wait") =>
                    /\ pc'[t] = "idle"
                    /\ \A m \in Mutexes : lock'[m] # t]_vars
    /\ \A t \in Threads : []<>~(pc[t] = "stop_wait" /\ ~Live(child[t]))

\* a recording stop has written the quit byte, is in child.wait() with its
\* kind's lock held, and the engine has exited
C31_Witness ==
    \E t \in Threads :
        /\ pc[t] = "stop_wait"
        /\ ~Live(child[t])
        /\ procs[child[t]].quits = 1
        /\ lock[ProcessSlot(KindOf(t))] = t

\* C33: the slot of a capture kind changes only in a step of a start or of
\* a stop of that kind: a start, stop or status of another kind, a status
\* of the same kind and the steps of trim_video, concatenate_clips and
\* export_composite_video leave it as it is.
C33_SlotChangedByOwnKindOnly ==
    [][\A k \in Kinds :
          slot'[ProcessSlot(k)] # slot[ProcessSlot(k)] =>
              \E t \in Threads : StartStep(t, k) \/ StopTake(t, k)]_vars

\* with the screen and the camera session Running, each on its own engine,
\* a trim has run to its end
C33_Witness ==
    /\ Running("screen")
    /\ Running("camera")
    /\ slot[ProcessSlot("screen")] # slot[ProcessSlot("camera")]
    /\ rq.op = "trim"
    /\ rq.result = "Ok"

\* C34: start_screen_preview keeps the preview lock from its running check
\* to the store of the child.  At most one call is past the check at a time,
\* it holds the lock and finds the slot Idle until it stores; a call that
\* finds the session Running returns the already-running error and spawns
\* nothing; a preview engine is spawned only by the call holding the lock,
\* into the Idle slot, and that call succeeds.  So of the calls made while
\* the preview is Idle one spawns and succeeds and the others are refused.
C34_PreviewStartIsAtomic ==
    [][/\ \A t, u \in Threads :
              (pc'[t] = "preview_spawn" /\ pc'[u] = "preview_spawn") => t = u
       /\ \A t \in Threads :
              /\ pc'[t] = "preview_spawn" =>
                     /\ lock'[ProcessSlot("preview")] = t
                     /\ slot'[ProcessSlot("preview")] = None
              /\ (Running("preview") /\ start_screen_preview(t)) =>
                     /\ ret'[t] = "AlreadyRunning"
                     /\ procs' = procs
                     /\ slot' = slot
       /\ \A p \in Pids :
              (~Exists(p) /\ procs'[p].kind = "preview") =>
                  \E t \in Threads :
                      /\ pc[t] = "preview_spawn"
                      /\ lock[ProcessSlot("preview")] = t
                      /\ slot[ProcessSlot("preview")] = None
                      /\ slot'[ProcessSlot("preview")] = p
                      /\ ret'[t] = "Started"
                      /\ lock'[ProcessSlot("preview")] = NoThread
      ]_vars

\* of two calls made while the preview was Idle one has succeeded and the
\* other has been refused, and there is one preview engine
C34_Witness ==
    /\ Running("preview")
    /\ \E t, u \in Threads : ret[t] = "Started" /\ ret[u] = "AlreadyRunning"
    /\ Cardinality({p \in Pids : procs[p].kind = "preview"}) = 1
    /\ \A p \in Pids : procs[p].kind \in {"preview", "none"}

\* C36: a start that returns an error of its resolution, of its target or
\* of spawn() leaves every slot as it was, Idle or Running, adds no engine
\* process and changes none.  Only the start commands return these errors
\* to a thread, so a step in which a thread receives one is a failing start.
C36_FailedStartChangesNothing ==
    [][\A t \in Threads :
          (/\ ret'[t] \in {"InvalidResolution", "SourceUnavailable",
                           "UnsupportedPlatform", "SpawnFailed"}
           /\ pc'[t] # pc[t] \/ ret'[t] # ret[t])
              => /\ slot' = slot
                 /\ procs' = procs
                 /\ pc'[t] = "idle"
      ]_vars

\* a thread has started the screen recording and then failed to spawn a
\* second engine; the session of the first start is still Running
C36_Witness ==
    \E t, u \in Threads :
        /\ ret[t] = "SpawnFailed"
        /\ ret[u] = "none"
        /\ Running("screen")
        /\ Live(slot[ProcessSlot("screen")])
        /\ Cardinality({p \in Pids : Exists(p)}) = 1

----------------------------------------------------------------------------
(* Claims about concatenate_clips *)

\* a file invocation o has written into the scratch directory and reads later:
\* the segments until the concat run, the list until the concat run, the
\* intermediate concat until the overlay run
StillNeeded(o) ==
    LET c == cc[o] IN
    CASE c.pc \in {"segment", "write_list"} ->
             {<<"segment", i>> : i \in 0..(c.i - 1)}
      [] c.pc \in {"final", "temp_concat"} ->
             {<<"segment", i>> : i \in 0..(c.n - 1)} \cup {<<"concat_list">>}
      [] c.pc = "overlay" -> {<<"temp_concat">>}
      [] OTHER -> {}

\* C10: once create_dir_all has made the scratch directory, the function
\* does not return, with success or with any error, without having called
\* remove_dir_all.
C10_CleanupOnEveryExit ==
    \A o \in Ops :
        (cc[o].pc = "done" /\ cc[o].dirCreated) => cc[o].cleanups >= 1

\* C11: two concatenations running at once never share a scratch directory:
\* every file an invocation has written and still has to read is there and
\* is the one this invocation wrote, never removed or overwritten by the
\* other invocation.
C11_ScratchDirPerOperation ==
    \A o \in Ops : \A f \in StillNeeded(o) : fs.files[f] = o

\* what the engine runs of a returned invocation decide, by themselves, as
\* its result: the exit status of the last engine run
ResultOfEngines(c) ==
    LET last == c.log[Len(c.log)] IN
    CASE last.step = "segment" -> "SegmentFailed"
      [] last.step = "concat_final" ->
             IF last.success THEN "Ok" ELSE "ConcatFailed"
      [] last.step = "concat_temp" -> "TempConcatFailed"
      [] OTHER -> IF last.success THEN "Ok" ELSE "OverlayFailed"

\* C26: the value concatenate_clips returns after it has attempted the
\* cleanup is the one its engine runs decide, success or the original error,
\* whether remove_dir_all succeeded or failed.
C26_CleanupFailureIgnored ==
    \A o \in Ops :
        (cc[o].pc = "done" /\ cc[o].removed # "none") =>
            cc[o].result = ResultOfEngines(cc[o])

\* a concatenation has returned success, and another its original error,
\* after remove_dir_all failed and left the scratch directory in place
C26_Witness ==
    /\ fs.exists
    /\ \E o \in Ops : cc[o].pc = "done" /\ cc[o].removed = "failed"
                      /\ cc[o].result = "Ok"
    /\ \E o \in Ops : cc[o].pc = "done" /\ cc[o].removed = "failed"
                      /\ cc[o].result = "SegmentFailed"

\* C35: an engine run of a concatenation that exited non-zero is the last
\* one of that concatenation: the function has returned, with an error, and
\* after a failed segment extraction the concat list has not been written.
C35_FailureStopsConcat ==
    \A o \in Ops : \A k \in 1..Len(cc[o].log) :
        ~cc[o].log[k].success =>
            /\ k = Len(cc[o].log)
            /\ cc[o].pc = "done"
            /\ cc[o].result \notin {"Ok", "none"}
            /\ cc[o].log[k].step = "segment" => cc[o].list = << >>

\* one concatenation has returned after the extraction of its second segment
\* failed, the other after its intermediate concat failed
C35_Witness ==
    \E o, q \in Ops :
        /\ cc[o].result = "SegmentFailed"
        /\ Len(cc[o].log) = 2
        /\ cc[o].n = 2
        /\ cc[q].result = "TempConcatFailed"
        /\ cc[q].list # << >>

\* the argument list holds the element x
HasArg(args, x) == \E i \in 1..Len(args) : args[i] = x

\* the argument list holds the flag directly followed by the value
HasOption(args, flag, value) ==
    \E i \in 1..(Len(args) - 1) : args[i] = Str(flag) /\ args[i + 1] = Str(value)

\* the argument list names the path as an input: -i <path>
HasInput(args, path) ==
    \E i \in 1..(Len(args) - 1) : args[i] = <<"str", "-i">> /\ args[i + 1] = path

\* the last element of the argument list, the file the engine writes
OutputOf(args) == args[Len(args)]

\* C23: a concatenation of N clips without PiP track that returns success
\* has run N + 1 engine processes: the extractions of segment 0 .. N-1 in
\* this order, each writing its own segment file, then one concat-demux
\* stream copy that reads the concat list and writes the output path.  The
\* list has N lines, the i-th naming segment i.  No process wrote
\* temp_concat.mp4 and none was an overlay.
C23_PlainConcatSteps ==
    \A o \in Ops :
        LET c == cc[o] IN
        (c.pc = "done" /\ c.result = "Ok" /\ ~c.pip) =>
            /\ Len(c.log) = c.n + 1
            /\ \A k \in 1..c.n :
                   /\ c.log[k].step = "segment"
                   /\ c.log[k].index = k - 1
                   /\ c.log[k].success
                   /\ HasInput(c.log[k].args, ClipArg("path", k - 1))
                   /\ OutputOf(c.log[k].args) = TempPath(<<"segment", k - 1>>)
            /\ c.list = [k \in 1..c.n |-> FileLine(TempPath(<<"segment", k - 1>>))]
            /\ LET final == c.log[c.n + 1] IN
               /\ final.step = "concat_final"
               /\ final.success
               /\ final.args[2] = <<"str", "-f">> /\ final.args[3] = <<"str", "concat">>
               /\ HasInput(final.args, TempPath(<<"concat_list">>))
               /\ \E i \in 1..(Len(final.args) - 1) :
                      final.args[i] = <<"str", "-c">> /\ final.args[i + 1] = <<"str", "copy">>
               /\ OutputOf(final.args) = <<"str", "output_path">>
            /\ \A k \in 1..Len(c.log) :
                   /\ c.log[k].step \notin {"concat_temp", "overlay"}
                   /\ OutputOf(c.log[k].args) # TempPath(<<"temp_concat">>)

\* two clips were concatenated without PiP track
C23_Witness ==
    \E o \in Ops :
        /\ cc[o].pc = "done" /\ cc[o].result = "Ok"
        /\ ~cc[o].pip /\ cc[o].n = 2
        /\ Len(cc[o].list) = 2

\* the inputs of an argument list, in order
InputsOf(args) ==
    LET at == SelectSeq([i \in 1..Len(args) |-> i],
                        LAMBDA i : i > 1 /\ args[i - 1] = Str("-i"))
    IN [k \in 1..Len(at) |-> args[at[k]]]

\* C24: in a concatenation with a PiP track, an overlay process is the
\* (N + 2)-th one: before it come the N extractions in clip order and then
\* one concat-demux stream copy into temp_concat.mp4 of the scratch
\* directory, all exited with success; its two inputs are temp_concat.mp4
\* and the PiP source.  Only the overlay process writes the output path,
\* and a success of the operation is the success of the overlay.
C24_PipConcatSteps ==
    \A o \in Ops :
        LET c == cc[o] IN
        c.pip =>
            /\ \A k \in 1..Len(c.log) :
                   /\ c.log[k].step # "concat_final"
                   /\ OutputOf(c.log[k].args) = Str("output_path") => c.log[k].step = "overlay"
                   /\ c.log[k].step = "overlay" =>
                          /\ k = c.n + 2
                          /\ \A j \in 1..c.n :
                                 /\ c.log[j].step = "segment"
                                 /\ c.log[j].index = j - 1
                                 /\ c.log[j].success
                          /\ c.log[c.n + 1].step = "concat_temp"
                          /\ c.log[c.n + 1].success
                          /\ HasInput(c.log[c.n + 1].args, TempPath(<<"concat_list">>))
                          /\ HasOption(c.log[c.n + 1].args, "-c", "copy")
                          /\ OutputOf(c.log[c.n + 1].args) = TempPath(<<"temp_concat">>)
                          /\ InputsOf(c.log[k].args) = <<TempPath(<<"temp_concat">>), Str("pip.path")>>
                          /\ OutputOf(c.log[k].args) = Str("output_path")
            /\ c.result = "Ok" =>
                   /\ Len(c.log) = c.n + 2
                   /\ c.log[c.n + 2].step = "overlay"
                   /\ c.log[c.n + 2].success

\* a concatenation of two clips with a PiP track has returned success
C24_Witness ==
    \E o \in Ops :
        /\ cc[o].pip /\ cc[o].n = 2
        /\ cc[o].pc = "done" /\ cc[o].result = "Ok"
        /\ Len(cc[o].log) = 4

----------------------------------------------------------------------------
(* Claims about the export requests *)

\* the tiers the operations document; "absent" is no tier value
KnownTiers == {"720p", "1080p", "source"}

\* C12: a request whose resolution is a value other than 720p, 1080p or
\* source never gets an engine process spawned and never returns success,
\* in trim_video, export_composite_video and concatenate_clips alike.
C12_UnknownTierRejected ==
    /\ (rq.op # "none" /\ rq.res \notin KnownTiers \cup {"absent"}) =>
           /\ rq.spawned = 0
           /\ rq.result # "Ok"
    /\ \A o \in Ops :
           (cc[o].pc # "idle" /\ cc[o].res \notin KnownTiers \cup {"absent"}) =>
               /\ cc[o].log = << >>
               /\ cc[o].result # "Ok"

\* C13: a trim request with an invalid time range, start < 0 or end <=
\* start, never gets an engine
\* process spawned and never returns success.
C13_InvalidRangeRejected ==
    (rq.op = "trim" /\ (rq.start_time < 0 \/ rq.end_time <= rq.start_time)) =>
        /\ rq.spawned = 0
        /\ rq.result # "Ok"

\* C14: an export_composite_video request with no tracks returns its error
\* with no filter graph built, no argument list built and no engine
\* spawned; a concatenate_clips request with no clips returns its error
\* with no scratch directory created and no engine spawned.
C14_EmptyListRejectedFirst ==
    /\ (rq.op = "composite" /\ rq.tracks = << >>) =>
           /\ rq.pc = "done"
           /\ rq.result = "NoTracks"
           /\ rq.filter = << >>
           /\ rq.args = << >>
           /\ rq.spawned = 0
    /\ \A o \in Ops :
           (cc[o].pc # "idle" /\ cc[o].n = 0) =>
               /\ cc[o].pc = "done"
               /\ cc[o].result = "NoClips"
               /\ ~cc[o].dirCreated
               /\ cc[o].log = << >>
               /\ cc[o].cleanups = 0
               /\ fs = NoTempDir

C14_Witness ==
    rq.op = "composite" /\ rq.tracks = << >> /\ rq.pc = "done"

\* the request passed its checks: the filter graph and the arguments exist
CompositeBuilt == rq.op = "composite" /\ rq.args # << >>

\* C20: the tracks are processed in ascending z_index order with equal
\* z_index kept in request order; the k-th track of that order is the k-th
\* -i input of the engine and the one the filter graph scales, mixes and
\* overlays through input index k (counted from 0).
C20_TracksFoldedInZOrder ==
    CompositeBuilt =>
        LET st == rq.sorted
            n == Len(rq.tracks)
        IN
        /\ Len(st) = n
        /\ {st[k] : k \in 1..n} = {rq.tracks[k] : k \in 1..n}
        /\ \A j, k \in 1..n :
               j < k => \/ st[j].z_index < st[k].z_index
                        \/ st[j].z_index = st[k].z_index /\ st[j].path < st[k].path
        /\ \A k \in 1..n :
               /\ rq.args[2 * k] = Str("-i")
               /\ rq.args[2 * k + 1] = PathOf(st[k].path)
               /\ rq.filter[2 * k].in = <<Pad("in:v", k - 1)>>
               /\ rq.filter[2 * k].out = Pad("v", k - 1)
               /\ rq.filter[2 * k + 1].in = <<Pad("in:a", k - 1)>>
               /\ rq.filter[1 + 2 * n + k].filter = "overlay"
               /\ rq.filter[1 + 2 * n + k].in[2] = Pad("v", k - 1)

\* the request with z_index 2, 0, 1 is folded in the order 0, 1, 2
C20_Witness ==
    /\ CompositeBuilt
    /\ [k \in 1..Len(rq.tracks) |-> rq.tracks[k].z_index] = <<2, 0, 1>>
    /\ [k \in 1..Len(rq.sorted) |-> rq.sorted[k].path] = <<2, 3, 1>>
    /\ rq.spawned = 1

\* the overlay segments of the filter graph, in order
Overlays == SelectSeq(rq.filter, LAMBDA part : part.filter = "overlay")

\* C21: for N tracks the filter graph holds N chained overlays: the first
\* lays track 0 over the background, each later one lays the next track
\* over the output of the one before, each but the last writes an
\* intermediate label and only the last writes the video output; for one
\* track the single overlay writes the video output directly.
C21_OverlayFold ==
    CompositeBuilt =>
        LET n == Len(rq.sorted) IN
        /\ Len(Overlays) = n
        /\ Overlays[1].in = <<Pad("bg", 0), Pad("v", 0)>>
        /\ \A k \in 2..n :
               /\ Overlays[k].in = <<Overlays[k - 1].out, Pad("v", k - 1)>>
               /\ Overlays[k - 1].out = Pad("tmp", k - 2)
        /\ Overlays[n].out = Pad("vout", 0)

\* the fold as the specification counts it: N - 1 overlays for N tracks,
\* one overlay for one track
C21_Original ==
    CompositeBuilt =>
        LET n == Len(rq.sorted) IN
        Len(Overlays) = IF n = 1 THEN 1 ELSE n - 1

\* a request of three tracks has been built and its engine spawned
C21_Witness ==
    /\ CompositeBuilt
    /\ rq.pc = "wait"
    /\ Len(rq.sorted) = 3
    /\ Len(Overlays) = 3

\* trim_video has built its argument list
TrimBuilt == rq.op = "trim" /\ rq.args # << >>

\* C22: the arguments of a trim at 720p or 1080p hold the scale filter of
\* the tier and a libx264 re-encode at the tier's bitrate and no stream
\* copy; at source or with no tier given they hold the stream copy, no
\* scale filter and no bitrate.  The stream copy is there exactly when
\* the scale filter is not.
C22_TrimArgsPerTier ==
    TrimBuilt =>
        /\ rq.res = "720p" =>
               /\ HasOption(rq.args, "-vf", "scale=1280:720")
               /\ HasOption(rq.args, "-c:v", "libx264")
               /\ HasOption(rq.args, "-b:v", "2500k")
               /\ ~HasArg(rq.args, Str("-c"))
        /\ rq.res = "1080p" =>
               /\ HasOption(rq.args, "-vf", "scale=1920:1080")
               /\ HasOption(rq.args, "-c:v", "libx264")
               /\ HasOption(rq.args, "-b:v", "5000k")
               /\ ~HasArg(rq.args, Str("-c"))
        /\ rq.res \in {"source", "absent"} =>
               /\ HasOption(rq.args, "-c", "copy")
               /\ ~HasArg(rq.args, Str("-vf"))
               /\ ~HasArg(rq.args, Str("-b:v"))
        /\ rq.res \in KnownTiers \cup {"absent"}
        /\ HasArg(rq.args, Str("-c")) <=> ~HasArg(rq.args, Str("-vf"))

\* a trim at 720p has been handed to the engine
C22_Witness ==
    /\ TrimBuilt
    /\ rq.res = "720p"
    /\ rq.spawned = 1
    /\ HasOption(rq.args, "-b:v", "2500k")

\* C25: a one-shot command returns success exactly when its engine has
\* exited with success (for a concatenation: every engine of it, the last
\* being the one that writes the output), and the error it returns after a
\* non-zero exit carries the engine's exit status.
C25_ResultIsExitStatus ==
    /\ rq.pc = "done" =>
           /\ rq.result = "Ok" <=> rq.exit = "success"
           /\ rq.exit = "nonzero" => "status" \in ErrorFields(rq.result)
    /\ \A o \in Ops :
           LET c == cc[o] IN
           c.pc = "done" =>
               /\ c.result = "Ok" <=>
                      /\ c.log # << >>
                      /\ \A k \in 1..Len(c.log) : c.log[k].success
                      /\ OutputOf(c.log[Len(c.log)].args) = Str("output_path")
               /\ (\E k \in 1..Len(c.log) : ~c.log[k].success) =>
                      "status" \in ErrorFields(c.result)

\* C27: every wait for an engine process to exit, in trim_video, in each
\* step of concatenate_clips and in export_composite_video, is made inside
\* tokio::task::spawn_blocking and never in the body of the command.
C27_WaitsOnBlockingWorker ==
    /\ rq.exit # "none" => rq.wait = "spawn_blocking"
    /\ \A o \in Ops : \A k \in 1..Len(cc[o].log) :
           cc[o].log[k].wait = "spawn_blocking"

\* the engine's options by the place the command line gives them: options
\* of the input that follows, of the filter graph and the stream mapping,
\* and of the encoders
InputFlags == {Str(f) : f \in {"-ss", "-f", "-framerate", "-video_size", "-safe"}}
GraphFlags == {Str(f) : f \in {"-vf", "-filter_complex", "-map"}}
EncodingFlags ==
    {Str(f) : f \in {"-c", "-c:v", "-c:a", "-b:v", "-b:a", "-preset", "-crf", "-pix_fmt"}}
\* every option the argument lists hold, those of the output file included
Flags ==
    {Str("-y"), Str("-i")} \cup InputFlags \cup GraphFlags \cup EncodingFlags
    \cup {Str(f) : f \in {"-t", "-avoid_negative_ts"}}

\* the positions of the argument list that hold an option of the class
PositionsOf(args, class) == {i \in 1..Len(args) : args[i] \in class}

\* -y first; every input option followed, with only input options between,
\* by an -i; graph and mapping options behind every -i; encoding options
\* behind every graph or mapping option; the last element the output path
ArgumentOrder(args) ==
    /\ args[1] = Str("-y")
    /\ \A p \in PositionsOf(args, InputFlags) :
           \E q \in PositionsOf(args, {Str("-i")}) :
               /\ p < q
               /\ \A m \in PositionsOf(args, Flags) :
                      (p < m /\ m < q) => args[m] \in InputFlags
    /\ \A p \in PositionsOf(args, GraphFlags \cup EncodingFlags) :
           \A q \in PositionsOf(args, {Str("-i")}) : q < p
    /\ \A p \in PositionsOf(args, EncodingFlags) :
           \A q \in PositionsOf(args, GraphFlags) : q < p
    /\ OutputOf(args) \notin Flags
    /\ args[Len(args) - 1] \notin Flags \ {Str("-y")}

\* C28: every argument list built for an engine, by trim_video, by
\* concatenate_clips for a segment, a concat or the overlay, by
\* export_composite_video and by the two recording starts, has -y first,
\* each input's options directly before its -i, the graph and mapping
\* options behind all inputs, the encoding options behind those, and the
\* output path last.
C28_ArgumentOrder ==
    /\ rq.args # << >> => ArgumentOrder(rq.args)
    /\ \A o \in Ops : \A k \in 1..Len(cc[o].log) :
           ArgumentOrder(cc[o].log[k].args)

\* the tier table: the output dimensions and the video bitrate of a tier
TierTable(res) ==
    IF res = "720p" THEN [width |-> 1280, height |-> 720, bitrate |-> "2500k"]
    ELSE [width |-> 1920, height |-> 1080, bitrate |-> "5000k"]

\* the scale filter of a tier's dimensions
TierScale(res) == IF res = "720p" THEN "scale=1280:720" ELSE "scale=1920:1080"

\* the argument list re-encodes the video at the tier's bitrate
EncodesAtTier(args, res) ==
    /\ HasOption(args, "-c:v", "libx264")
    /\ ~HasOption(args, "-c", "copy")
    /\ HasOption(args, "-b:v", TierTable(res).bitrate)

\* C29: whichever command resolves the tier 720p or 1080p, trim_video,
\* concatenate_clips, export_composite_video or a recording start, its
\* engine re-encodes to the dimensions and at the bitrate of the tier table:
\* 1280x720 at 2500k, 1920x1080 at 5000k.
C29_OneTierTable ==
    /\ (rq.args # << >> /\ rq.res \in KnownTiers \ {"source"}) =>
           LET t == TierTable(rq.res) IN
           /\ EncodesAtTier(rq.args, rq.res)
           /\ CASE rq.op = "trim" -> HasOption(rq.args, "-vf", TierScale(rq.res))
                [] rq.op = "composite" -> rq.size = <<t.width, t.height>>
                [] rq.op = "start_screen_recording" ->
                       HasArg(rq.args, <<"scale", t.width, t.height>>)
                [] OTHER -> HasArg(rq.args, <<"size", t.width, t.height>>)
    /\ \A o \in Ops : \A k \in 1..Len(cc[o].log) :
           (cc[o].log[k].step = "segment" /\ cc[o].res \in KnownTiers \ {"source"}) =>
               /\ EncodesAtTier(cc[o].log[k].args, cc[o].res)
               /\ HasOption(cc[o].log[k].args, "-vf", TierScale(cc[o].res))

\* the value trim_video gives to -ss
StartArg == rq.args[3]

\* C30: for a start time of whole milliseconds with end > start >= 0, the
\* timestamp trim_video gives to -ss names the start time again when read as
\* hours * 3600 + minutes * 60 + seconds, its minutes are within 0..59 and
\* its seconds below 60.
C30_StartTimeRoundTrip ==
    (TrimBuilt /\ 0 <= rq.start_time /\ rq.start_time < rq.end_time) =>
        /\ rq.args[2] = Str("-ss")
        /\ StartArg[2] * 3600000 + StartArg[3] * 60000 + StartArg[4] = rq.start_time
        /\ StartArg[3] \in 0..59
        /\ StartArg[4] \in 0..59999

\* a trim from 1:01:01.001 to 2:02:02.002 has its arguments built
C30_Witness ==
    /\ TrimBuilt
    /\ rq.start_time = 3661001
    /\ rq.end_time = 7322002
    /\ StartArg = <<"time", 1, 1, 1001>>

----------------------------------------------------------------------------
(* Claims about the demuxer *)

\* the stream is one frame: it begins with the start marker, and its first
\* end marker is its last two bytes
SingleFrameStream(stream) ==
    /\ Len(stream) >= 4
    /\ Position(stream, jpeg_start) = 1
    /\ Position(stream, jpeg_end) = Len(stream) - 1

\* the buffer begins with a start marker and holds no end marker
HoldsPartial(buf) == Position(buf, jpeg_start) = 1 /\ Position(buf, jpeg_end) = 0

\* the offset in the stream of the byte after frame k; 0 for k = 0
FrameEnd(k) == IF k = 0 THEN 0 ELSE dm.frames[k].at + Len(dm.frames[k].data)

\* C15: once a stream made of a start marker followed later by the end
\* marker has been read, in whatever chunks, exactly one frame has been
\* emitted, and it is the whole stream from the start marker through the
\* end marker.
C15_OneFrameWhateverTheReads ==
    SingleFrameStream(dm.input) =>
        /\ dm.frames = <<[data |-> dm.input, at |-> 0]>>
        /\ dm.buffer = << >>

\* read boundaries fell inside the start marker and inside the end marker
C15_Witness ==
    /\ SingleFrameStream(dm.input)
    /\ Len(dm.input) >= 5
    /\ Len(dm.frames) = 1
    /\ dm.split = {"start", "end"}

\* C16: every emitted frame begins with the start marker and is a slice of
\* the stream that begins at the first start marker after the frame before
\* it: the bytes in front of that marker are in no frame, and the buffer
\* keeps no byte in front of a start marker.
C16_BytesBeforeStartDiscarded ==
    /\ \A k \in 1..Len(dm.frames) :
           LET f == dm.frames[k] IN
           /\ SubSeq(f.data, 1, 2) = jpeg_start
           /\ f.data = SubSeq(dm.input, f.at + 1, f.at + Len(f.data))
           /\ f.at >= FrameEnd(k - 1)
           /\ Position(SubSeq(dm.input, FrameEnd(k - 1) + 1, f.at + 2), jpeg_start)
                  = f.at - FrameEnd(k - 1) + 1
    /\ Position(dm.buffer, jpeg_start) \in {0, 1}

\* a frame was emitted that had other bytes in front of it
C16_Witness ==
    /\ dm.frames # << >>
    /\ dm.frames[1].at > 0
    /\ dm.pc = "reading"

\* the bytes the read of this step has appended to the buffer
ChunkRead == SubSeq(dm'.input, Len(dm.input) + 1, Len(dm'.input))

\* C17: a read after which the buffer holds a start marker and no end marker
\* behind it emits no frame, and leaves in the buffer exactly the bytes
\* from the start marker onward, those of earlier reads included.
C17_PartialFrameStaysBuffered ==
    [][(dm.pc = "reading" /\ dm'.pc = "reading") =>
          LET all == dm.buffer \o ChunkRead
              start_pos == Position(all, jpeg_start)
              rest == SubSeq(all, start_pos, Len(all))
          IN (start_pos # 0 /\ Position(rest, jpeg_end) = 0) =>
                 /\ dm'.frames = dm.frames
                 /\ dm'.emitted = 0
                 /\ dm'.buffer = rest]_vars

\* a partial frame whose start marker came in two reads is waiting
C17_Witness ==
    /\ dm.pc = "reading"
    /\ HoldsPartial(dm.buffer)
    /\ Len(dm.buffer) >= 3
    /\ dm.frames = << >>
    /\ dm.emitted = 0
    /\ "start" \in dm.split

\* C18: the step that leaves the loop, at end of stream or on a read
\* error, emits nothing, whatever is left in the buffer; once the loop is
\* left nothing changes any more.
C18_NoFrameAtOrAfterStop ==
    [][/\ (dm.pc = "reading" /\ dm'.pc = "stopped") =>
              /\ dm'.frames = dm.frames
              /\ dm'.stop \in {"eof", "error"}
       /\ dm.pc = "stopped" => dm' = dm]_vars

\* the stream ended in the middle of a frame
C18_Witness ==
    /\ dm.pc = "stopped"
    /\ dm.stop = "eof"
    /\ HoldsPartial(dm.buffer)
    /\ Len(dm.frames) = 1

\* the frames of the stream read so far, had it come in one read
FramesOfOneRead ==
    Scan([buffer |-> dm.input, frames |-> << >>, drained |-> 0,
          emit_ok |-> [k \in 1..(MaxStream \div 4) |-> TRUE]], 0).frames

\* C19: after a read no complete frame is left in the buffer; the frames
\* emitted are slices of the stream that follow one another without
\* overlap; and they are the same frames whatever the chunks of the reads.
C19_AllFramesOnceInOrder ==
    /\ LET start_pos == Position(dm.buffer, jpeg_start) IN
       \/ start_pos = 0
       \/ Position(SubSeq(dm.buffer, start_pos, Len(dm.buffer)), jpeg_end) = 0
    /\ \A k \in 1..Len(dm.frames) :
           /\ dm.frames[k].data
                  = SubSeq(dm.input, dm.frames[k].at + 1, FrameEnd(k))
           /\ dm.frames[k].at >= FrameEnd(k - 1)
    /\ dm.frames = FramesOfOneRead

\* one read brought two complete frames and both were emitted by its scan
C19_Witness ==
    /\ dm.emitted = 2
    /\ Len(dm.frames) = 2
    /\ dm.buffer = << >>

\* C32: an emit that returns Err changes nothing in the reader: it is still
\* reading unless the stream ended or a read failed, and its frames and its
\* buffer are those of the same stream with every emit delivered, so the
\* complete frames behind the undelivered one are extracted all the same.
C32_EmitIsFireAndForget ==
    dm.undelivered # {} =>
        LET delivered == Scan([buffer |-> dm.input, frames |-> << >>, drained |-> 0,
                               emit_ok |-> [k \in 1..(MaxStream \div 4) |-> TRUE]], 0)
        IN
        /\ dm.frames = delivered.frames
        /\ dm.buffer = delivered.buffer
        /\ dm.pc = "stopped" => dm.stop \in {"eof", "error"}

\* the emit of the first frame returned Err, and a later read brought the
\* second frame, which was extracted and delivered
C32_Witness ==
    /\ dm.pc = "reading"
    /\ dm.undelivered = {1}
    /\ Len(dm.frames) = 2
    /\ dm.emitted = 1

\* C37: after every read the buffer holds no start marker, or it begins
\* with a start marker and holds no end marker; every emitted frame ends
\* with the end marker and holds no end marker before that one.
C37_BufferAndFrameShape ==
    /\ \/ Position(dm.buffer, jpeg_start) = 0
       \/ HoldsPartial(dm.buffer)
    /\ \A k \in 1..Len(dm.frames) :
           LET data == dm.frames[k].data IN
           /\ Len(data) >= 2
           /\ SubSeq(data, Len(data) - 1, Len(data)) = jpeg_end
           /\ Position(data, jpeg_end) = Len(data) - 1

\* bytes without a start marker are waiting in the buffer behind an emitted
\* frame
C37_Witness ==
    /\ dm.pc = "reading"
    /\ Len(dm.frames) = 1
    /\ Len(dm.buffer) >= 2
    /\ Position(dm.buffer, jpeg_start) = 0
    /\ Position(dm.buffer, jpeg_end) # 0

====
